---- MODULE Spec2Model ----
(***************************************************************************)
(* Reservation lifecycle of the restaurant reservation application:        *)
(* the Reservation / PaymentRecord / WaitlistEntry rows, the services that *)
(* act on them (ReservationService, WaitlistService,                       *)
(* TableAvailabilityService), the payment endpoints and the celery tasks.  *)
(*                                                                         *)
(* Rows are kept in sequences; a row's primary key is its index.  Time is  *)
(* counted in seconds since midnight of day 0: a DateTimeField holds such  *)
(* a number, a DateField a day number, a TimeField seconds since midnight. *)
(* An operation that ends in an uncaught Python exception keeps the writes *)
(* it committed before the exception (autocommit) except those inside a    *)
(* transaction.atomic block, and reports the exception's name in ret.out.  *)
(***************************************************************************)
EXTENDS Integers, Sequences, FiniteSets, TLC

VARIABLES
    reservations,   \* Reservation rows
    payments,       \* PaymentRecord rows
    entries,        \* WaitlistEntry rows
    tasks,          \* celery messages sent and not yet executed
    now,            \* timezone.now()
    workers,        \* position of each concurrent create_reservation call
    ops,            \* number of operations called so far
    ret             \* the last operation and what it returned or raised

vars == <<reservations, payments, entries, tasks, now, workers, ops, ret>>

-----------------------------------------------------------------------------
(* Bounds of the model *)

MaxNumber == 60

MaxOps == 4
MaxEntries == 3
MaxClock == 1800
MaxWaitClock == 3600

(* Values of the model's inputs *)

Users == {1, 2}
Bookers == {1}
Dates == {1}
Times == {0, 900, 1800}
GuestCounts == {3, 4}
RefIds == {"REF_A"}
Reasons == {"Change of plans"}
TickSteps == {900}
WaitTickSteps == {1800}
WaitGuestCounts == {3}
Workers == {1, 2}

-----------------------------------------------------------------------------
(* Choices and constants of the program *)

PENDING == "pending"
CONFIRMED == "confirmed"
CANCELLED == "cancelled"
COMPLETED == "completed"

VERIFIED == "verified"
FAILED == "failed"

WAITING == "waiting"
NOTIFIED == "notified"
CONVERTED == "converted"
EXPIRED == "expired"

NORMAL == "NORMAL"
VIP == "VIP"

None == -1
SecondsPerDay == 86400
SecondsPerMinute == 60

\* the fixture data the services read: one restaurant with two tables
Restaurant == [vip_price_per_seat |-> 3, normal_price_per_seat |-> 2]
Tables == {1, 2}
Table == [t \in Tables |->
            IF t = 1 THEN [table_type |-> NORMAL, capacity |-> 3]
                     ELSE [table_type |-> VIP, capacity |-> 3]]

ActiveStatuses == {PENDING, CONFIRMED}

ConflictMessage == "This table is already reserved for the selected time slot."
CapacityMessage == "Guest count exceeds table capacity."
CreatedMessage == "Reservation created successfully. Please complete the payment."
StaleReason == "Payment not completed within time limit"

today == now \div SecondsPerDay
current_time == now % SecondsPerDay

Ids(rows) == 1 .. Len(rows)

-----------------------------------------------------------------------------
(* TableAvailabilityService *)

round_up_to_even_plus_one(number) ==
    number + 1

round_up_to_even(number) ==
    IF number % 2 = 0 THEN number ELSE number + 1

\* variant: closed intervals, so that touching windows count as overlapping
_get_overlap_base_query_closed(rs, check_date, start_time, end_time) ==
    {i \in Ids(rs) :
        /\ rs[i].date = check_date
        /\ rs[i].status \in {PENDING, CONFIRMED}
        /\ rs[i].start_time <= end_time
        /\ rs[i].end_time >= start_time}

_get_overlap_base_query(rs, check_date, start_time, end_time) ==
    {i \in Ids(rs) :
        /\ rs[i].date = check_date
        /\ rs[i].status \in {PENDING, CONFIRMED}
        /\ rs[i].start_time < end_time
        /\ rs[i].end_time > start_time}

check_specific_table_availability(rs, table, check_date, start_time, end_time) ==
    {i \in _get_overlap_base_query(rs, check_date, start_time, end_time) :
        rs[i].table = table} = {}

-----------------------------------------------------------------------------
(* ReservationService: the pure parts *)

\* variant: only CONFIRMED reservations occupy a slot
check_table_availability_confirmed_only(rs, table, date, start_time, end_time) ==
    {i \in Ids(rs) :
        /\ rs[i].table = table
        /\ rs[i].date = date
        /\ rs[i].status \in {CONFIRMED}
        /\ rs[i].start_time < end_time
        /\ rs[i].end_time > start_time} = {}

check_table_availability(rs, table, date, start_time, end_time) ==
    {i \in Ids(rs) :
        /\ rs[i].table = table
        /\ rs[i].date = date
        /\ rs[i].status \in {PENDING, CONFIRMED}
        /\ rs[i].start_time < end_time
        /\ rs[i].end_time > start_time} = {}

validate_guest_count_unchecked(table, guest_count) ==
    TRUE

validate_guest_count(table, guest_count) ==
    ~ (guest_count > Table[table].capacity)

calculate_price(table, guest_count) ==
    Restaurant.normal_price_per_seat * guest_count

-----------------------------------------------------------------------------
(* Reservation: the model's methods.  Each returns the rows after the call; *)
(* save() runs full_clean() first, so a method whose row fails clean()      *)
(* raises ValidationError and writes nothing.                               *)

\* Reservation.clean of the row r whose primary key is pk (0 before the insert)
clean(rs, r, pk) ==
    /\ ~ (r.end_time <= r.start_time)
    /\ \/ Table[r.table].table_type # VIP
       \/ {i \in Ids(rs) :
              /\ rs[i].table = r.table
              /\ rs[i].date = r.date
              /\ rs[i].status \in {PENDING, CONFIRMED}
              /\ i # pk} = {}

is_payment_expired(r) ==
    IF r.payment_deadline # None THEN now > r.payment_deadline ELSE FALSE

confirm(rs, id) ==
    LET r == [rs[id] EXCEPT !.status = CONFIRMED, !.payment_deadline = None]
    IN  IF clean(rs, r, id) THEN [rs EXCEPT ![id] = r] ELSE rs

confirm_raises(rs, id) ==
    ~ clean(rs, [rs[id] EXCEPT !.status = CONFIRMED, !.payment_deadline = None], id)

cancel(rs, id, reason) ==
    LET r == [rs[id] EXCEPT !.status = CANCELLED, !.cancellation_reason = reason]
    IN  IF clean(rs, r, id) THEN [rs EXCEPT ![id] = r] ELSE rs

cancel_raises(rs, id, reason) ==
    ~ clean(rs, [rs[id] EXCEPT !.status = CANCELLED,
                               !.cancellation_reason = reason], id)

complete(rs, id) ==
    LET r == [rs[id] EXCEPT !.status = COMPLETED]
    IN  IF clean(rs, r, id) THEN [rs EXCEPT ![id] = r] ELSE rs

complete_raises(rs, id) ==
    ~ clean(rs, [rs[id] EXCEPT !.status = COMPLETED], id)

set_payment_deadline(r, minutes) ==
    [r EXCEPT !.payment_deadline = now + minutes * SecondsPerMinute]

-----------------------------------------------------------------------------
(* ReservationService.create_reservation *)

\* variant: the payment record is created with a zero amount
_create_payment_record_zero_amount(ps, id, r) ==
    Append(ps, [reservation |-> id,
                amount |-> 0,
                ref_id |-> "",
                status |-> PENDING,
                verified_at |-> None])

_create_payment_record(ps, id, r) ==
    Append(ps, [reservation |-> id,
                amount |-> r.price,
                ref_id |-> "",
                status |-> PENDING,
                verified_at |-> None])

NewReservation(user, table, date, start_time, end_time, guest_count) ==
    [user |-> user,
     table |-> table,
     date |-> date,
     start_time |-> start_time,
     end_time |-> end_time,
     guest_count |-> guest_count,
     price |-> calculate_price(table, guest_count),
     status |-> PENDING,
     payment_deadline |-> None,
     cancellation_reason |-> "",
     created_at |-> now]

\* the outcome of the checks made before the atomic block
create_precheck(rs, table, date, start_time, end_time, guest_count) ==
    IF ~ validate_guest_count(table, guest_count) THEN CapacityMessage
    ELSE IF ~ check_table_availability(rs, table, date, start_time, end_time)
         THEN ConflictMessage
         ELSE "ok"

\* the atomic block: insert, deadline, payment record; all or nothing
create_atomic(user, table, date, start_time, end_time, guest_count, op) ==
    LET r == NewReservation(user, table, date, start_time, end_time, guest_count)
        id == Len(reservations) + 1
    IN  IF ~ clean(reservations, r, 0)
        THEN /\ ret' = [op |-> op, out |-> "ValidationError"]
             /\ UNCHANGED <<reservations, payments>>
        ELSE /\ reservations' = Append(reservations, set_payment_deadline(r, 15))
             /\ payments' = _create_payment_record(payments, id, r)
             /\ ret' = [op |-> op, out |-> CreatedMessage]

create_reservation(user, table, date, start_time, end_time, guest_count) ==
    LET pre == create_precheck(reservations, table, date, start_time, end_time,
                               guest_count)
    IN  /\ IF pre # "ok"
           THEN /\ ret' = [op |-> "create_reservation", out |-> pre]
                /\ UNCHANGED <<reservations, payments>>
           ELSE create_atomic(user, table, date, start_time, end_time,
                              guest_count, "create_reservation")
        /\ UNCHANGED <<entries, tasks, now, workers>>

-----------------------------------------------------------------------------
(* ReservationService.confirm_reservation and cancel_reservation.          *)
(* Reservation has no method mark_expired and WaitlistService no method    *)
(* process_waitlist: the calls raise AttributeError where they stand.      *)

\* variant: the call does not look at the reservation's status first
confirm_reservation_any_status(id) ==
    /\ id \in Ids(reservations)
    /\ IF is_payment_expired(reservations[id])
       THEN /\ ret' = [op |-> "confirm_reservation", out |-> "AttributeError"]
            /\ UNCHANGED reservations
       ELSE IF confirm_raises(reservations, id)
       THEN /\ ret' = [op |-> "confirm_reservation", out |-> "ValidationError"]
            /\ UNCHANGED reservations
       ELSE /\ reservations' = confirm(reservations, id)
            /\ ret' = [op |-> "confirm_reservation", out |-> "True"]
    /\ UNCHANGED <<payments, entries, tasks, now, workers>>

confirm_reservation(id) ==
    /\ id \in Ids(reservations)
    /\ IF reservations[id].status # PENDING
       THEN /\ ret' = [op |-> "confirm_reservation", out |-> "False"]
            /\ UNCHANGED reservations
       ELSE IF is_payment_expired(reservations[id])
       THEN /\ ret' = [op |-> "confirm_reservation", out |-> "AttributeError"]
            /\ UNCHANGED reservations
       ELSE IF confirm_raises(reservations, id)
       THEN /\ ret' = [op |-> "confirm_reservation", out |-> "ValidationError"]
            /\ UNCHANGED reservations
       ELSE /\ reservations' = confirm(reservations, id)
            /\ ret' = [op |-> "confirm_reservation", out |-> "True"]
    /\ UNCHANGED <<payments, entries, tasks, now, workers>>

cancel_reservation(id, reason) ==
    /\ id \in Ids(reservations)
    /\ IF cancel_raises(reservations, id, reason)
       THEN /\ ret' = [op |-> "cancel_reservation", out |-> "ValidationError"]
            /\ UNCHANGED reservations
       ELSE /\ reservations' = cancel(reservations, id, reason)
            /\ ret' = [op |-> "cancel_reservation", out |-> "AttributeError"]
    /\ UNCHANGED <<payments, entries, tasks, now, workers>>

-----------------------------------------------------------------------------
(* PaymentRecord and the ways to it: the model's verify and fail, the      *)
(* verify-payment endpoint and the admin's bulk actions (on one selected   *)
(* payment).                                                               *)

\* PaymentRecord.verify: the payment is saved, then the reservation confirmed
verify_payment(ps, id, ref_id) ==
    [ps EXCEPT ![id] = [@ EXCEPT !.status = VERIFIED,
                                 !.ref_id = ref_id,
                                 !.verified_at = now]]

verify(id, ref_id, op) ==
    /\ payments' = verify_payment(payments, id, ref_id)
    /\ reservations' = confirm(reservations, payments[id].reservation)
    /\ ret' = [op |-> op, out |-> IF confirm_raises(reservations, payments[id].reservation)
                       THEN "ValidationError" ELSE "None"]

fail_payment(ps, id) ==
    [ps EXCEPT ![id] = [@ EXCEPT !.status = FAILED]]

PaymentRecord_verify(id, ref_id) ==
    /\ id \in Ids(payments)
    /\ verify(id, ref_id, "PaymentRecord.verify")
    /\ UNCHANGED <<entries, tasks, now, workers>>

PaymentRecord_fail(id) ==
    /\ id \in Ids(payments)
    /\ payments' = fail_payment(payments, id)
    /\ ret' = [op |-> "PaymentRecord.fail", out |-> "None"]
    /\ UNCHANGED <<reservations, entries, tasks, now, workers>>

\* PaymentVerifySerializer declares ref_id only: validated_data["payment_id"]
\* raises KeyError before any payment is looked up
PaymentVerifyView_post(payment_id, ref_id) ==
    /\ payment_id \in Ids(payments)
    /\ ret' = [op |-> "PaymentVerifyView.post", out |-> "KeyError"]
    /\ UNCHANGED <<reservations, payments, entries, tasks, now, workers>>

mark_as_verified(id) ==
    /\ id \in Ids(payments)
    /\ IF payments[id].status = PENDING
       THEN verify(id, "ADMIN_VERIFIED", "mark_as_verified")
       ELSE /\ ret' = [op |-> "mark_as_verified", out |-> "0"]
            /\ UNCHANGED <<reservations, payments>>
    /\ UNCHANGED <<entries, tasks, now, workers>>

-----------------------------------------------------------------------------
(* reservation/tasks.py: the periodic sweeps.  A sweep walks its queryset   *)
(* in the model's Meta.ordering; an exception in the loop ends the task and *)
(* keeps what the earlier iterations saved.                                 *)

\* Reservation.Meta.ordering = ["-date", "-start_time"], then the primary key
ReservationBefore(rs, i, j) ==
    \/ rs[i].date > rs[j].date
    \/ rs[i].date = rs[j].date /\ rs[i].start_time > rs[j].start_time
    \/ rs[i].date = rs[j].date /\ rs[i].start_time = rs[j].start_time /\ i < j

FirstReservation(rs, S) ==
    CHOOSE i \in S : \A j \in S \ {i} : ReservationBefore(rs, i, j)

SlotMessage(r) ==
    [name |-> "process_waitlist_after_cancellation",
     table |-> r.table,
     date |-> r.date,
     start_time |-> r.start_time,
     end_time |-> r.end_time]

RECURSIVE StaleLoop(_, _, _)
\* db = [rs, ts, out]: the rows, the messages sent, and the task's outcome
StaleLoop(db, S, count) ==
    IF S = {} THEN [db EXCEPT !.out = "expired_count"]
    ELSE LET i == FirstReservation(db.rs, S)
         IN  IF cancel_raises(db.rs, i, StaleReason)
             THEN [db EXCEPT !.out = "ValidationError"]
             ELSE StaleLoop([rs |-> cancel(db.rs, i, StaleReason),
                             ts |-> db.ts \cup {SlotMessage(db.rs[i])},
                             out |-> db.out],
                            S \ {i}, count + 1)

stale_reservations(rs) ==
    {i \in Ids(rs) : rs[i].status = PENDING /\ rs[i].created_at < now - 10}

expire_stale_pending_reservations ==
    LET db == StaleLoop([rs |-> reservations, ts |-> tasks, out |-> ""],
                        stale_reservations(reservations), 0)
    IN  /\ reservations' = db.rs
        /\ tasks' = db.ts
        /\ ret' = [op |-> "expire_stale_pending_reservations", out |-> db.out]
        /\ UNCHANGED <<payments, entries, now, workers>>

pending_reservations(rs) ==
    {i \in Ids(rs) : /\ rs[i].status = PENDING
                     /\ rs[i].payment_deadline # None
                     /\ rs[i].payment_deadline < now}

\* the first iteration calls reservation.mark_expired(): AttributeError
expire_pending_reservations ==
    /\ ret' = [op |-> "expire_pending_reservations",
               out |-> IF pending_reservations(reservations) = {}
                       THEN "expired_count" ELSE "AttributeError"]
    /\ UNCHANGED <<reservations, payments, entries, tasks, now, workers>>

has_ended_by_date(r) ==
    r.date <= today

has_ended(r) ==
    \/ r.date < today
    \/ r.date = today /\ r.end_time <= current_time

RECURSIVE CompleteLoop(_, _)
CompleteLoop(db, S) ==
    IF S = {} THEN [db EXCEPT !.out = "completed_count"]
    ELSE LET i == FirstReservation(db.rs, S)
         IN  IF ~ has_ended(db.rs[i]) THEN CompleteLoop(db, S \ {i})
             ELSE IF complete_raises(db.rs, i)
             THEN [db EXCEPT !.out = "ValidationError"]
             ELSE CompleteLoop([db EXCEPT !.rs = complete(db.rs, i)], S \ {i})

\* the rows the task loops over
ended_candidates(rs) ==
    {i \in Ids(rs) : rs[i].status = CONFIRMED /\ rs[i].date <= today}

check_and_complete_reservations ==
    LET db == CompleteLoop([rs |-> reservations, out |-> ""],
                           ended_candidates(reservations))
    IN  /\ reservations' = db.rs
        /\ ret' = [op |-> "check_and_complete_reservations", out |-> db.out]
        /\ UNCHANGED <<payments, entries, tasks, now, workers>>

-----------------------------------------------------------------------------
(* WaitlistService and the waitlist tasks *)

get_next_position(es, table, date, start_time) ==
    LET queue == {i \in Ids(es) : /\ es[i].table = table
                                  /\ es[i].date = date
                                  /\ es[i].start_time = start_time
                                  /\ es[i].status = WAITING}
    IN  IF queue = {} THEN 1
        ELSE (CHOOSE p \in {es[i].position : i \in queue} :
                 \A i \in queue : es[i].position <= p) + 1

unique_violation_unenforced(es, user, table, date, start_time, end_time) ==
    FALSE

\* unique_together = (user, table, date, start_time, end_time), any status
unique_violation(es, user, table, date, start_time, end_time) ==
    \E i \in Ids(es) : /\ es[i].user = user
                       /\ es[i].table = table
                       /\ es[i].date = date
                       /\ es[i].start_time = start_time
                       /\ es[i].end_time = end_time

add_to_waitlist(user, table, date, start_time, end_time, guest_count) ==
    LET existing == \E i \in Ids(entries) :
                        /\ entries[i].user = user
                        /\ entries[i].table = table
                        /\ entries[i].date = date
                        /\ entries[i].start_time = start_time
                        /\ entries[i].status \in {WAITING, NOTIFIED}
        position == get_next_position(entries, table, date, start_time)
    IN  /\ IF existing
           THEN /\ ret' = [op |-> "add_to_waitlist", out |-> "already"]
                /\ UNCHANGED entries
           ELSE IF guest_count > Table[table].capacity
           THEN /\ ret' = [op |-> "add_to_waitlist", out |-> "capacity"]
                /\ UNCHANGED entries
           ELSE IF unique_violation(entries, user, table, date, start_time, end_time)
           THEN /\ ret' = [op |-> "add_to_waitlist", out |-> "IntegrityError"]
                /\ UNCHANGED entries
           ELSE /\ Len(entries) < MaxEntries
                /\ entries' = Append(entries,
                                [user |-> user,
                                 table |-> table,
                                 date |-> date,
                                 start_time |-> start_time,
                                 end_time |-> end_time,
                                 guest_count |-> guest_count,
                                 status |-> WAITING,
                                 position |-> position,
                                 notified_at |-> None,
                                 payment_deadline |-> None,
                                 reservation |-> None,
                                 created_at |-> now])
                /\ ret' = [op |-> "add_to_waitlist", out |-> "added"]
        /\ UNCHANGED <<reservations, payments, tasks, now, workers>>

\* order_by("position", "created_at"); rows created in the same instant of
\* the model's clock are told apart by their primary keys
EntryBefore(es, i, j) ==
    \/ es[i].position < es[j].position
    \/ es[i].position = es[j].position /\ es[i].created_at < es[j].created_at
    \/ /\ es[i].position = es[j].position
       /\ es[i].created_at = es[j].created_at
       /\ i < j

\* variant: every WAITING entry of the table and date is a candidate, whether
\* or not its window overlaps the freed slot
get_first_waiting_entry_any_window(es, table, date, start_time, end_time) ==
    LET S == {i \in Ids(es) : /\ es[i].table = table
                              /\ es[i].date = date
                              /\ es[i].status = WAITING}
    IN  IF S = {} THEN 0
        ELSE CHOOSE i \in S : \A j \in S \ {i} : EntryBefore(es, i, j)

\* variant: entries of every status are candidates for promotion
get_first_waiting_entry_any_status(es, table, date, start_time, end_time) ==
    LET S == {i \in Ids(es) : /\ es[i].table = table
                              /\ es[i].date = date
                              /\ es[i].start_time < end_time
                              /\ es[i].end_time > start_time}
    IN  IF S = {} THEN 0
        ELSE CHOOSE i \in S : \A j \in S \ {i} : EntryBefore(es, i, j)

\* the primary key of the first waiting entry, 0 when there is none
get_first_waiting_entry(es, table, date, start_time, end_time) ==
    LET S == {i \in Ids(es) : /\ es[i].table = table
                              /\ es[i].date = date
                              /\ es[i].status = WAITING
                              /\ es[i].start_time < end_time
                              /\ es[i].end_time > start_time}
    IN  IF S = {} THEN 0
        ELSE CHOOSE i \in S : \A j \in S \ {i} : EntryBefore(es, i, j)

\* variant: the claim deadline is 15 minutes after the notification
notify_quarter_hour(es, id) ==
    [es EXCEPT ![id] = [@ EXCEPT !.status = NOTIFIED,
                                 !.notified_at = now,
                                 !.payment_deadline = now + 15 * SecondsPerMinute]]

notify(es, id) ==
    [es EXCEPT ![id] = [@ EXCEPT !.status = NOTIFIED,
                                 !.notified_at = now,
                                 !.payment_deadline = now + 30 * SecondsPerMinute]]

\* variant: the entry is saved without the new status
expire_without_status(es, id) ==
    es

expire(es, id) ==
    [es EXCEPT ![id] = [@ EXCEPT !.status = EXPIRED]]

ExpireMessage(id) ==
    [name |-> "expire_waitlist_entry", id |-> id, eta |-> now + 30 * 60]

\* [es, ts, id]: the rows, the messages and the notified entry (0: None)
process_waitlist_for_slot(es, ts, table, date, start_time, end_time) ==
    LET id == get_first_waiting_entry(es, table, date, start_time, end_time)
    IN  IF id = 0 THEN [es |-> es, ts |-> ts, id |-> 0]
        ELSE [es |-> notify(es, id), ts |-> ts \cup {ExpireMessage(id)}, id |-> id]

process_waitlist_after_cancellation(m) ==
    LET db == process_waitlist_for_slot(entries, tasks \ {m}, m.table, m.date,
                                        m.start_time, m.end_time)
    IN  /\ m.name = "process_waitlist_after_cancellation"
        /\ entries' = db.es
        /\ tasks' = db.ts
        /\ ret' = [op |-> "process_waitlist_after_cancellation",
                   out |-> IF db.id = 0 THEN "no_waitlist" ELSE "notified"]
        /\ UNCHANGED <<reservations, payments, now, workers>>

\* the body of the task for the entry id, without the status check
expire_waitlist_entry_body_unguarded(es, rs, ts, id) ==
    IF /\ es[id].reservation # None
       /\ rs[es[id].reservation].status = PENDING
    THEN [es |-> es, ts |-> ts, out |-> "error"]
    ELSE LET db == process_waitlist_for_slot(expire(es, id), ts, es[id].table,
                       es[id].date, es[id].start_time, es[id].end_time)
         IN  [es |-> db.es, ts |-> db.ts,
              out |-> IF db.id = 0 THEN "expired"
                      ELSE "expired_and_next_notified"]

\* the body of the task for the entry id: [es, ts, out], the entries, the
\* messages and the returned status
expire_waitlist_entry_body(es, rs, ts, id) ==
    IF es[id].status # NOTIFIED
    THEN [es |-> es, ts |-> ts, out |-> "already_processed"]
    ELSE IF /\ es[id].reservation # None
            /\ rs[es[id].reservation].status = PENDING
    THEN \* entry.reservation.mark_expired(): AttributeError, caught
         [es |-> es, ts |-> ts, out |-> "error"]
    ELSE LET db == process_waitlist_for_slot(expire(es, id), ts, es[id].table,
                       es[id].date, es[id].start_time, es[id].end_time)
         IN  [es |-> db.es, ts |-> db.ts,
              out |-> IF db.id = 0 THEN "expired"
                      ELSE "expired_and_next_notified"]

expire_waitlist_entry(m) ==
    LET db == expire_waitlist_entry_body(entries, reservations, tasks \ {m}, m.id)
    IN  /\ m.name = "expire_waitlist_entry"
        /\ now >= m.eta
        /\ entries' = db.es
        /\ tasks' = db.ts
        /\ ret' = [op |-> "expire_waitlist_entry", out |-> db.out]
        /\ UNCHANGED <<reservations, payments, now, workers>>

\* create_reservation takes no from_waitlist argument: the call raises
\* TypeError and the atomic decorator rolls back (nothing was written)
convert_waitlist_to_reservation(id) ==
    /\ id \in Ids(entries)
    /\ IF entries[id].status # NOTIFIED
       THEN /\ ret' = [op |-> "convert_waitlist_to_reservation",
                       out |-> "This request is no longer valid."]
            /\ UNCHANGED entries
       ELSE IF /\ entries[id].payment_deadline # None
               /\ now > entries[id].payment_deadline
       THEN /\ entries' = expire(entries, id)
            /\ ret' = [op |-> "convert_waitlist_to_reservation",
                       out |-> "Payment deadline has passed."]
       ELSE IF ~ check_specific_table_availability(reservations,
                    entries[id].table, entries[id].date,
                    entries[id].start_time, entries[id].end_time)
       THEN /\ ret' = [op |-> "convert_waitlist_to_reservation",
                       out |-> "This table is no longer available."]
            /\ UNCHANGED entries
       ELSE /\ ret' = [op |-> "convert_waitlist_to_reservation",
                       out |-> "TypeError"]
            /\ UNCHANGED entries
    /\ UNCHANGED <<reservations, payments, tasks, now, workers>>

-----------------------------------------------------------------------------
(* create_reservation called by concurrent workers.  The availability      *)
(* check runs before the atomic block, in autocommit; inside the block the *)
(* insert's full_clean and the full_clean of set_payment_deadline each read *)
(* the rows committed so far, and the block's writes become visible to the *)
(* other worker at its commit.                                             *)

IdleWorker ==
    [pc |-> "idle", user |-> 0, table |-> 0, date |-> 0, start_time |-> 0,
     end_time |-> 0, guest_count |-> 0, out |-> "", id |-> 0, position |-> 0]

WorkerCheck(w, user, table, date, start_time, end_time, guest_count) ==
    LET pre == create_precheck(reservations, table, date, start_time, end_time,
                               guest_count)
        call == [IdleWorker EXCEPT !.user = user, !.table = table, !.date = date,
                                   !.start_time = start_time,
                                   !.end_time = end_time,
                                   !.guest_count = guest_count]
    IN  /\ workers[w].pc = "idle"
        /\ workers' = [workers EXCEPT ![w] =
                          IF pre # "ok"
                          THEN [call EXCEPT !.pc = "returned", !.out = pre]
                          ELSE [call EXCEPT !.pc = "create"]]
        /\ UNCHANGED <<reservations, payments, entries, tasks, now, ops, ret>>

WorkerRow(w) ==
    NewReservation(workers[w].user, workers[w].table, workers[w].date,
                   workers[w].start_time, workers[w].end_time,
                   workers[w].guest_count)

\* Reservation.objects.create: full_clean of the row, then the INSERT
WorkerCreate(w) ==
    /\ workers[w].pc = "create"
    /\ workers' = [workers EXCEPT ![w] =
                      IF clean(reservations, WorkerRow(w), 0)
                      THEN [@ EXCEPT !.pc = "set_payment_deadline"]
                      ELSE [@ EXCEPT !.pc = "returned", !.out = "ValidationError"]]
    /\ UNCHANGED <<reservations, payments, entries, tasks, now, ops, ret>>

\* set_payment_deadline's save: full_clean again, still inside the block,
\* where the other worker's uncommitted rows are not visible
WorkerSetDeadline(w) ==
    /\ workers[w].pc = "set_payment_deadline"
    /\ workers' = [workers EXCEPT ![w] =
                      IF clean(reservations, WorkerRow(w), 0)
                      THEN [@ EXCEPT !.pc = "commit"]
                      ELSE [@ EXCEPT !.pc = "returned", !.out = "ValidationError"]]
    /\ UNCHANGED <<reservations, payments, entries, tasks, now, ops, ret>>

\* the payment record and the commit of the block
WorkerCommit(w) ==
    LET id == Len(reservations) + 1
    IN  /\ workers[w].pc = "commit"
        /\ reservations' = Append(reservations,
                                  set_payment_deadline(WorkerRow(w), 15))
        /\ payments' = _create_payment_record(payments, id, WorkerRow(w))
        /\ workers' = [workers EXCEPT ![w] =
                          [@ EXCEPT !.pc = "returned",
                                    !.out = CreatedMessage, !.id = id]]
        /\ UNCHANGED <<entries, tasks, now, ops, ret>>

-----------------------------------------------------------------------------

Init ==
    /\ reservations = << >>
    /\ payments = << >>
    /\ entries = << >>
    /\ tasks = {}
    /\ now = SecondsPerDay
    /\ workers = [w \in Workers |-> IdleWorker]
    /\ ops = 0
    /\ ret = [op |-> "init", out |-> ""]

Tick ==
    /\ \E d \in TickSteps :
          /\ current_time + d <= MaxClock
          /\ now' = now + d
    /\ UNCHANGED <<reservations, payments, entries, tasks, workers, ops, ret>>

CreateReservation ==
    \E user \in Bookers, table \in Tables, date \in Dates,
       start_time \in Times, end_time \in Times, guest_count \in GuestCounts :
        create_reservation(user, table, date, start_time, end_time, guest_count)

ConfirmReservation ==
    \E id \in Ids(reservations) : confirm_reservation(id)

CancelReservation ==
    \E id \in Ids(reservations), reason \in Reasons :
        cancel_reservation(id, reason)

VerifyPayment ==
    \E id \in Ids(payments), ref_id \in RefIds : PaymentRecord_verify(id, ref_id)

FailPayment ==
    \E id \in Ids(payments) : PaymentRecord_fail(id)

VerifyPaymentRequest ==
    \E id \in Ids(payments), ref_id \in RefIds :
        PaymentVerifyView_post(id, ref_id)

AdminMarkAsVerified ==
    \E id \in Ids(payments) : mark_as_verified(id)

AddToWaitlist ==
    \E user \in Users, table \in Tables, date \in Dates,
       start_time \in Times, end_time \in Times, guest_count \in WaitGuestCounts :
        /\ start_time < end_time
        /\ add_to_waitlist(user, table, date, start_time, end_time, guest_count)

ConvertWaitlist ==
    \E id \in Ids(entries) : convert_waitlist_to_reservation(id)

\* a celery worker executes one of the messages
RunProcessWaitlist ==
    \E m \in tasks : process_waitlist_after_cancellation(m)

RunExpireWaitlistEntry ==
    \E m \in tasks : expire_waitlist_entry(m)

\* one more operation is called
Call ==
    /\ ops < MaxOps
    /\ ops' = ops + 1

Next ==
    \/ Tick
    \/ Call /\ CreateReservation
    \/ Call /\ ConfirmReservation
    \/ Call /\ CancelReservation
    \/ Call /\ VerifyPayment
    \/ Call /\ FailPayment
    \/ Call /\ VerifyPaymentRequest
    \/ Call /\ AdminMarkAsVerified
    \/ Call /\ expire_stale_pending_reservations
    \/ Call /\ expire_pending_reservations
    \/ Call /\ check_and_complete_reservations

Spec == Init /\ [][Next]_vars

\* two workers, each making one create_reservation call
ConcNext ==
    \E w \in Workers :
        \/ \E user \in Bookers, table \in Tables, date \in Dates,
              start_time \in Times, end_time \in Times,
              guest_count \in GuestCounts :
               WorkerCheck(w, user, table, date, start_time, end_time, guest_count)
        \/ WorkerCreate(w)
        \/ WorkerSetDeadline(w)
        \/ WorkerCommit(w)

ConcSpec == Init /\ [][ConcNext]_vars

-----------------------------------------------------------------------------
(* The waitlist: joins, promotions, conversions and the tasks that drive   *)
(* them, next to the reservation operations that free a slot.              *)

\* WaitlistService.process_waitlist_for_slot called for a freed slot
WaitlistService_process_waitlist_for_slot(table, date, start_time, end_time) ==
    LET db == process_waitlist_for_slot(entries, tasks, table, date,
                                        start_time, end_time)
    IN  /\ entries' = db.es
        /\ tasks' = db.ts
        /\ ret' = [op |-> "process_waitlist_for_slot",
                   out |-> IF db.id = 0 THEN "None" ELSE "entry",
                   id |-> db.id]
        /\ UNCHANGED <<reservations, payments, now, workers>>

ProcessWaitlistForSlot ==
    \E table \in Tables, date \in Dates, start_time \in Times, end_time \in Times :
        /\ start_time < end_time
        /\ WaitlistService_process_waitlist_for_slot(table, date, start_time,
                                                     end_time)

\* a reservation is made for a slot that entries may wait for
ReserveSlot ==
    \E user \in Bookers, table \in Tables, date \in Dates,
       start_time \in Times, end_time \in Times, guest_count \in WaitGuestCounts :
        /\ start_time < end_time
        /\ create_reservation(user, table, date, start_time, end_time, guest_count)

WaitTick ==
    \E d \in WaitTickSteps :
        /\ current_time + d <= MaxWaitClock
        /\ now' = now + d
        /\ UNCHANGED <<reservations, payments, entries, tasks, workers, ops, ret>>

WaitNext ==
    \/ WaitTick
    \/ Call /\ AddToWaitlist
    \/ Call /\ ProcessWaitlistForSlot
    \/ Call /\ ConvertWaitlist
    \/ Call /\ ReserveSlot
    \/ Call /\ CancelReservation
    \/ Call /\ expire_stale_pending_reservations
    \/ Call /\ expire_pending_reservations
    \/ Call /\ RunProcessWaitlist
    \/ Call /\ RunExpireWaitlistEntry

WaitSpec == Init /\ [][WaitNext]_vars

-----------------------------------------------------------------------------
(* Requests whose guest count may exceed the table's capacity *)

JoinWaitlist ==
    \E user \in Users, table \in Tables, date \in Dates,
       start_time \in Times, end_time \in Times, guest_count \in GuestCounts :
        /\ start_time < end_time
        /\ add_to_waitlist(user, table, date, start_time, end_time, guest_count)

GuestNext ==
    \/ Call /\ CreateReservation
    \/ Call /\ JoinWaitlist
    \/ Call /\ ProcessWaitlistForSlot

GuestSpec == Init /\ [][GuestNext]_vars

-----------------------------------------------------------------------------
(* add_to_waitlist called by concurrent workers.  The method is one         *)
(* transaction: the duplicate check, the capacity check and the position    *)
(* are computed from the rows committed so far; the INSERT is checked       *)
(* against the unique index, which waits for a concurrent insert of the     *)
(* same key to commit and then raises IntegrityError.                       *)

JoinCheck(w, user, table, date, start_time, end_time, guest_count) ==
    LET existing == \E i \in Ids(entries) :
                        /\ entries[i].user = user
                        /\ entries[i].table = table
                        /\ entries[i].date = date
                        /\ entries[i].start_time = start_time
                        /\ entries[i].status \in {WAITING, NOTIFIED}
        frame == [IdleWorker EXCEPT !.user = user, !.table = table,
                                    !.date = date, !.start_time = start_time,
                                    !.end_time = end_time,
                                    !.guest_count = guest_count]
    IN  /\ workers[w].pc \in {"idle", "returned"}
        /\ workers' = [workers EXCEPT ![w] =
              IF existing
              THEN [frame EXCEPT !.pc = "returned", !.out = "already"]
              ELSE IF guest_count > Table[table].capacity
              THEN [frame EXCEPT !.pc = "returned", !.out = "capacity"]
              ELSE [frame EXCEPT !.pc = "insert",
                                 !.position = get_next_position(entries, table,
                                                                date, start_time)]]
        /\ UNCHANGED <<reservations, payments, entries, tasks, now, ret>>

JoinInsert(w) ==
    LET f == workers[w]
    IN  /\ f.pc = "insert"
        /\ IF unique_violation(entries, f.user, f.table, f.date, f.start_time,
                               f.end_time)
           THEN /\ workers' = [workers EXCEPT ![w] =
                                 [f EXCEPT !.pc = "returned",
                                           !.out = "IntegrityError"]]
                /\ UNCHANGED entries
           ELSE /\ Len(entries) < MaxEntries
                /\ entries' = Append(entries,
                                [user |-> f.user,
                                 table |-> f.table,
                                 date |-> f.date,
                                 start_time |-> f.start_time,
                                 end_time |-> f.end_time,
                                 guest_count |-> f.guest_count,
                                 status |-> WAITING,
                                 position |-> f.position,
                                 notified_at |-> None,
                                 payment_deadline |-> None,
                                 reservation |-> None,
                                 created_at |-> now])
                /\ workers' = [workers EXCEPT ![w] =
                                 [f EXCEPT !.pc = "returned", !.out = "added",
                                           !.id = Len(entries) + 1]]
        /\ UNCHANGED <<reservations, payments, tasks, now, ops, ret>>

JoinNext ==
    \/ WaitTick
    \/ \E w \in Workers :
          \/ \E user \in Bookers, table \in Tables, date \in Dates,
                start_time \in Times, end_time \in Times,
                guest_count \in WaitGuestCounts :
                 /\ start_time < end_time
                 /\ Call
                 /\ JoinCheck(w, user, table, date, start_time, end_time,
                              guest_count)
          \/ JoinInsert(w)
    \/ Call /\ ProcessWaitlistForSlot
    \/ Call /\ ConvertWaitlist
    \/ Call /\ RunExpireWaitlistEntry

JoinSpec == Init /\ [][JoinNext]_vars

-----------------------------------------------------------------------------
(* The expiry and completion tasks next to the operations that feed them *)

TaskNext ==
    \/ WaitTick
    \/ Call /\ ReserveSlot
    \/ Call /\ VerifyPayment
    \/ Call /\ AddToWaitlist
    \/ Call /\ ProcessWaitlistForSlot
    \/ Call /\ expire_pending_reservations
    \/ Call /\ RunExpireWaitlistEntry
    \/ Call /\ check_and_complete_reservations

TaskSpec == Init /\ [][TaskNext]_vars

-----------------------------------------------------------------------------
(* The beat schedule runs expire_pending_reservations every 60 seconds, for *)
(* ever: the task is taken again and again, whatever the requests do.       *)

SweepNext ==
    \/ Tick
    \/ Call /\ ReserveSlot
    \/ Call /\ VerifyPayment
    \/ expire_pending_reservations /\ UNCHANGED ops

SweepSpec ==
    /\ Init
    /\ [][SweepNext]_vars
    /\ WF_vars(expire_pending_reservations /\ UNCHANGED ops)

-----------------------------------------------------------------------------
(* The celery worker executes every message it was sent once its eta has    *)
(* come: a due expire_waitlist_entry message does not wait for ever.  The   *)
(* requests go on meanwhile.                                                *)

\* one user joins the waitlist for several windows
BookerJoins ==
    \E user \in Bookers, table \in Tables, date \in Dates,
       start_time \in Times, end_time \in Times, guest_count \in WaitGuestCounts :
        /\ start_time < end_time
        /\ add_to_waitlist(user, table, date, start_time, end_time, guest_count)

NotifyNext ==
    \/ WaitTick
    \/ Call /\ BookerJoins
    \/ Call /\ ProcessWaitlistForSlot
    \/ Call /\ ConvertWaitlist
    \/ RunExpireWaitlistEntry /\ UNCHANGED ops

NotifySpec ==
    /\ Init
    /\ [][NotifyNext]_vars
    /\ WF_vars(RunExpireWaitlistEntry /\ UNCHANGED ops)

-----------------------------------------------------------------------------
(* round_up_to_even applied to the numbers of people a caller may pass, and *)
(* to its own results                                                       *)

RoundInit ==
    /\ Init!1 /\ Init!2 /\ Init!3 /\ Init!4 /\ Init!5 /\ Init!6 /\ Init!7
    /\ \E number \in 1 .. MaxNumber :
          ret = [op |-> "number", number |-> number, out |-> number]

RoundUp ==
    /\ ret' = [op |-> "round_up_to_even", number |-> ret.out,
               out |-> round_up_to_even(ret.out)]
    /\ UNCHANGED <<reservations, payments, entries, tasks, now, workers, ops>>

RoundSpec == RoundInit /\ [][RoundUp]_vars

-----------------------------------------------------------------------------
(* process_waitlist_for_slot called by concurrent workers (two task runs,   *)
(* or a task run and a request).  get_first_waiting_entry is a plain read   *)
(* of the committed rows; notify() saves the row it read, whatever its      *)
(* status has become, and the expiry message is sent.                       *)

PromoteRead(w, table, date, start_time, end_time) ==
    LET id == get_first_waiting_entry(entries, table, date, start_time, end_time)
        frame == [IdleWorker EXCEPT !.table = table, !.date = date,
                                    !.start_time = start_time,
                                    !.end_time = end_time]
    IN  /\ workers[w].pc = "idle"
        /\ workers' = [workers EXCEPT ![w] =
              IF id = 0
              THEN [frame EXCEPT !.pc = "returned", !.out = "None"]
              ELSE [frame EXCEPT !.pc = "notify", !.id = id]]
        /\ UNCHANGED <<reservations, payments, entries, tasks, now, ret>>

PromoteNotify(w) ==
    /\ workers[w].pc = "notify"
    /\ entries' = notify(entries, workers[w].id)
    /\ tasks' = tasks \cup {ExpireMessage(workers[w].id)}
    /\ workers' = [workers EXCEPT ![w] =
                      [@ EXCEPT !.pc = "returned", !.out = "entry"]]
    /\ UNCHANGED <<reservations, payments, now, ops, ret>>

PromoteNext ==
    \/ WaitTick
    \/ Call /\ AddToWaitlist
    \/ \E w \in Workers :
          \/ \E table \in Tables, date \in Dates,
                start_time \in Times, end_time \in Times :
                 /\ start_time < end_time
                 /\ Call
                 /\ PromoteRead(w, table, date, start_time, end_time)
          \/ PromoteNotify(w)

PromoteSpec == Init /\ [][PromoteNext]_vars

-----------------------------------------------------------------------------
(* A payment is verified while the expiry tasks visit its reservation and   *)
(* the worker executes the promotion messages they send.                    *)

RaceNext ==
    \/ Tick
    \/ Call /\ ReserveSlot
    \/ Call /\ BookerJoins
    \/ Call /\ VerifyPayment
    \/ Call /\ expire_pending_reservations
    \/ Call /\ expire_stale_pending_reservations
    \/ RunProcessWaitlist /\ UNCHANGED ops

RaceSpec == Init /\ [][RaceNext]_vars

-----------------------------------------------------------------------------
(* Properties *)

Overlap(s1, e1, s2, e2) == s1 < e2 /\ s2 < e1

\* an active reservation of the rows rs occupies part of the window
Occupied(rs, table, date, start_time, end_time) ==
    \E i \in Ids(rs) :
        /\ rs[i].table = table
        /\ rs[i].date = date
        /\ rs[i].status \in ActiveStatuses
        /\ Overlap(rs[i].start_time, rs[i].end_time, start_time, end_time)

\* C1: any two distinct active (PENDING or CONFIRMED) reservations on the
\* same table and date have non-overlapping [start_time, end_time) windows,
\* in every state reached by the core operations run one at a time.
C1_ActiveWindowsDisjoint ==
    \A i, j \in Ids(reservations) :
        /\ i # j
        /\ reservations[i].status \in ActiveStatuses
        /\ reservations[j].status \in ActiveStatuses
        /\ reservations[i].table = reservations[j].table
        /\ reservations[i].date = reservations[j].date
        => ~ Overlap(reservations[i].start_time, reservations[i].end_time,
                     reservations[j].start_time, reservations[j].end_time)

\* C2: of two concurrent create_reservation calls for the same table and
\* date with overlapping windows, at most one returns a reservation.
C2_AtMostOneCreated ==
    \A v, w \in Workers :
        /\ v # w
        /\ workers[v].pc = "returned"
        /\ workers[w].pc = "returned"
        /\ workers[v].table = workers[w].table
        /\ workers[v].date = workers[w].date
        /\ Overlap(workers[v].start_time, workers[v].end_time,
                   workers[w].start_time, workers[w].end_time)
        => ~ (workers[v].out = CreatedMessage /\ workers[w].out = CreatedMessage)

\* C3 (as stated): every create_reservation call whose window overlaps an
\* active reservation on the same table and date returns the conflict
\* message and leaves the Reservation and PaymentRecord rows as they were.
C3_OverlapAlwaysConflict ==
    [][\A user \in Bookers, table \in Tables, date \in Dates,
          start_time \in Times, end_time \in Times, guest_count \in GuestCounts :
            /\ create_reservation(user, table, date, start_time, end_time,
                                  guest_count)
            /\ Occupied(reservations, table, date, start_time, end_time)
            => /\ ret'.out = ConflictMessage
               /\ reservations' = reservations
               /\ payments' = payments]_vars

\* C3 (amended): a create_reservation call whose guest count is within the
\* table's capacity and whose window overlaps an active reservation on the
\* same table and date returns the conflict message; one whose guest count
\* exceeds the capacity returns the capacity message; in both cases the
\* Reservation and PaymentRecord rows stay as they were.
C3_OverlapRejected ==
    [][\A user \in Bookers, table \in Tables, date \in Dates,
          start_time \in Times, end_time \in Times, guest_count \in GuestCounts :
            /\ create_reservation(user, table, date, start_time, end_time,
                                  guest_count)
            /\ Occupied(reservations, table, date, start_time, end_time)
            => /\ ret'.out = IF guest_count > Table[table].capacity
                             THEN CapacityMessage ELSE ConflictMessage
               /\ reservations' = reservations
               /\ payments' = payments]_vars

\* a create_reservation call has just been refused for a conflict with an
\* active reservation
C3_Witness ==
    /\ ret.op = "create_reservation"
    /\ ret.out = ConflictMessage
    /\ \E i \in Ids(reservations) : reservations[i].status \in ActiveStatuses

QueryDates == {0, 1}

\* C4: for every table, date and window both availability checks report
\* "not available" exactly when an active reservation on that table and
\* date overlaps the window; touching windows and CANCELLED or COMPLETED
\* reservations never block.
C4_AvailabilityIffNoOverlap ==
    \A table \in Tables, date \in QueryDates, s \in Times, e \in Times :
        /\ check_table_availability(reservations, table, date, s, e)
             = ~ Occupied(reservations, table, date, s, e)
        /\ check_specific_table_availability(reservations, table, date, s, e)
             = ~ Occupied(reservations, table, date, s, e)

\* two active reservations touch on one table and date, a third reservation
\* is CANCELLED or COMPLETED, and the checks were passed on the way
C4_Witness ==
    /\ \E i, j \in Ids(reservations) :
          /\ reservations[i].status \in ActiveStatuses
          /\ reservations[j].status \in ActiveStatuses
          /\ reservations[i].table = reservations[j].table
          /\ reservations[i].date = reservations[j].date
          /\ reservations[i].end_time = reservations[j].start_time
    /\ \E k \in Ids(reservations) :
          reservations[k].status \in {CANCELLED, COMPLETED}
    /\ ret.op = "create_reservation"
    /\ ret.out = CreatedMessage

PaymentsOf(id) == {p \in Ids(payments) : payments[p].reservation = id}

\* C5: a successful create_reservation adds, in one step, a PENDING
\* reservation whose payment_deadline is the creation time plus 15 minutes
\* and exactly one PENDING PaymentRecord for its price; and in every state
\* each reservation has its payment record and, while PENDING, its deadline.
C5_CreatedWithDeadlineAndPayment ==
    /\ [](\A i \in Ids(reservations) :
            /\ Cardinality(PaymentsOf(i)) = 1
            /\ \A p \in PaymentsOf(i) : payments[p].amount = reservations[i].price
            /\ reservations[i].status = PENDING
                 => /\ reservations[i].payment_deadline # None
                    /\ reservations[i].payment_deadline
                         = reservations[i].created_at + 15 * 60)
    /\ [][/\ \E user \in Bookers, table \in Tables, date \in Dates,
                 start_time \in Times, end_time \in Times,
                 guest_count \in GuestCounts :
                   create_reservation(user, table, date, start_time, end_time,
                                      guest_count)
           /\ ret'.out = CreatedMessage
            => LET id == Len(reservations')
               IN  /\ id = Len(reservations) + 1
                   /\ Len(payments') = Len(payments) + 1
                   /\ reservations'[id].status = PENDING
                   /\ reservations'[id].created_at = now
                   /\ reservations'[id].payment_deadline = now + 15 * 60
                   /\ payments'[Len(payments')].reservation = id
                   /\ payments'[Len(payments')].status = PENDING
                   /\ payments'[Len(payments')].amount = reservations'[id].price
                   /\ \A k \in Ids(reservations) :
                         reservations'[k] = reservations[k]
                   /\ \A k \in Ids(payments) : payments'[k] = payments[k]]_vars

\* a reservation has just been created
C5_Witness ==
    /\ ret.op = "create_reservation"
    /\ ret.out = CreatedMessage
    /\ reservations[Len(reservations)].status = PENDING
    /\ Cardinality(PaymentsOf(Len(reservations))) = 1

StatusEdges ==
    {<<PENDING, CONFIRMED>>, <<PENDING, CANCELLED>>,
     <<CONFIRMED, CANCELLED>>, <<CONFIRMED, COMPLETED>>}

\* C6: a reservation's status changes only along PENDING -> CONFIRMED,
\* PENDING -> CANCELLED, CONFIRMED -> CANCELLED and CONFIRMED -> COMPLETED;
\* a CANCELLED or COMPLETED reservation never changes status again.
C6_StatusEdgesOnly ==
    [][\A i \in Ids(reservations) :
          reservations'[i].status # reservations[i].status
            => <<reservations[i].status, reservations'[i].status>> \in StatusEdges
      ]_vars

\* C7: verifying a PENDING payment of a PENDING reservation within its
\* deadline, by the model operation or by the verify-payment request, sets
\* the payment VERIFIED with verified_at and the caller's ref_id, and the
\* reservation CONFIRMED with payment_deadline null.
C7_VerifyConfirms ==
    [][\A id \in Ids(payments), ref_id \in RefIds :
          /\ PaymentRecord_verify(id, ref_id) \/ PaymentVerifyView_post(id, ref_id)
          /\ payments[id].status = PENDING
          /\ reservations[payments[id].reservation].status = PENDING
          /\ ~ is_payment_expired(reservations[payments[id].reservation])
          => /\ payments'[id].status = VERIFIED
             /\ payments'[id].verified_at = now
             /\ payments'[id].ref_id = ref_id
             /\ reservations'[payments[id].reservation].status = CONFIRMED
             /\ reservations'[payments[id].reservation].payment_deadline = None
      ]_vars

\* C8: a verify attempt on a payment that is not PENDING is rejected and
\* changes neither the payment nor its reservation.
C8_VerifyNonPendingRejected ==
    [][\A id \in Ids(payments), ref_id \in RefIds :
          /\ \/ PaymentRecord_verify(id, ref_id)
             \/ PaymentVerifyView_post(id, ref_id)
             \/ mark_as_verified(id)
          /\ payments[id].status # PENDING
          => /\ payments' = payments
             /\ reservations' = reservations
      ]_vars

\* C9: every CONFIRMED reservation has a VERIFIED payment record.
C9_ConfirmedHasVerifiedPayment ==
    \A i \in Ids(reservations) :
        reservations[i].status = CONFIRMED
          => \E p \in PaymentsOf(i) : payments[p].status = VERIFIED

\* C10: confirm_reservation on a PENDING reservation whose payment_deadline
\* has passed returns False and leaves the reservation CANCELLED.
C10_ExpiredConfirmCancels ==
    [][\A id \in Ids(reservations) :
          /\ confirm_reservation(id)
          /\ reservations[id].status = PENDING
          /\ is_payment_expired(reservations[id])
          => /\ ret'.out = "False"
             /\ reservations'[id].status = CANCELLED
      ]_vars

\* C11: confirm_reservation on a reservation that is not PENDING (CONFIRMED,
\* CANCELLED or COMPLETED) returns False and changes no reservation (status
\* and payment_deadline included), payment, waitlist entry or message.
C11_ConfirmNonPendingRefused ==
    [][\A id \in Ids(reservations) :
          /\ confirm_reservation(id)
          /\ reservations[id].status \in {CONFIRMED, CANCELLED, COMPLETED}
          => /\ ret'.out = "False"
             /\ reservations' = reservations
             /\ payments' = payments
             /\ entries' = entries
             /\ tasks' = tasks
      ]_vars

\* confirm_reservation has just returned False while a reservation that is
\* not PENDING exists
C11_Witness ==
    /\ ret.op = "confirm_reservation"
    /\ ret.out = "False"
    /\ \E i \in Ids(reservations) :
          reservations[i].status \in {CONFIRMED, CANCELLED, COMPLETED}

\* C12: cancel_reservation on a reservation that is already CANCELLED or
\* COMPLETED is rejected and has no side effects: status and
\* cancellation_reason stay, no waitlist entry changes and no reservation or
\* payment record is created.
C12_CancelTerminalRejected ==
    [][\A id \in Ids(reservations), reason \in Reasons :
          /\ cancel_reservation(id, reason)
          /\ reservations[id].status \in {CANCELLED, COMPLETED}
          => /\ reservations' = reservations
             /\ payments' = payments
             /\ entries' = entries
      ]_vars

\* the WAITING entries on the table and date whose window overlaps the slot
WaitingFor(es, table, date, start_time, end_time) ==
    {i \in Ids(es) :
        /\ es[i].table = table
        /\ es[i].date = date
        /\ es[i].status = WAITING
        /\ Overlap(es[i].start_time, es[i].end_time, start_time, end_time)}

\* reservation k of the rows rs is a PENDING reservation for entry e's
\* user, table, date, window and guest count
ReservedFor(rs, k, e) ==
    /\ rs[k].status = PENDING
    /\ rs[k].user = e.user
    /\ rs[k].table = e.table
    /\ rs[k].date = e.date
    /\ rs[k].start_time = e.start_time
    /\ rs[k].end_time = e.end_time
    /\ rs[k].guest_count = e.guest_count

\* C13: after cancel_reservation of a PENDING or CONFIRMED reservation, if a
\* WAITING entry on the same table and date overlaps the freed window, one
\* such entry is CONVERTED and linked to a newly created PENDING reservation
\* for its user, table, date, window and guest count; and every CONVERTED
\* entry always references a reservation.
C13_CancelHandsOver ==
    /\ [](\A i \in Ids(entries) :
            entries[i].status = CONVERTED => entries[i].reservation # None)
    /\ [][\A id \in Ids(reservations), reason \in Reasons :
            /\ cancel_reservation(id, reason)
            /\ reservations[id].status \in ActiveStatuses
            /\ WaitingFor(entries, reservations[id].table, reservations[id].date,
                          reservations[id].start_time,
                          reservations[id].end_time) # {}
            => \E i \in WaitingFor(entries, reservations[id].table,
                                   reservations[id].date,
                                   reservations[id].start_time,
                                   reservations[id].end_time) :
                  /\ entries'[i].status = CONVERTED
                  /\ entries'[i].reservation \in
                        Ids(reservations') \ Ids(reservations)
                  /\ ReservedFor(reservations', entries'[i].reservation,
                                 entries[i])
         ]_vars

\* freeing the slot leaves the entries outside it alone, and creates nothing
\* when no WAITING entry overlaps it
SlotFrame(table, date, start_time, end_time) ==
    /\ \A i \in Ids(entries) :
          ~ ( /\ entries[i].table = table
              /\ entries[i].date = date
              /\ Overlap(entries[i].start_time, entries[i].end_time,
                         start_time, end_time) )
          => entries'[i] = entries[i]
    /\ WaitingFor(entries, table, date, start_time, end_time) = {}
          => /\ Len(reservations') = Len(reservations)
             /\ payments' = payments
             /\ entries' = entries

\* C14: cancelling or expiring a reservation, and the waitlist processing
\* it triggers for the freed slot, leave every waitlist entry that does not
\* overlap the freed window (or is on another table or date) unchanged, and
\* create no reservation and no payment record when no WAITING entry
\* overlaps the freed window.
C14_OtherEntriesUntouched ==
    [][/\ ops' # ops /\ ret'.op = "cancel_reservation"
            => \A id \in Ids(reservations), reason \in Reasons :
                 cancel_reservation(id, reason)
                   => SlotFrame(reservations[id].table, reservations[id].date,
                                reservations[id].start_time,
                                reservations[id].end_time)
       /\ ops' # ops /\ ret'.op = "process_waitlist_after_cancellation"
            => \A m \in tasks :
                 process_waitlist_after_cancellation(m)
                   => SlotFrame(m.table, m.date, m.start_time, m.end_time)
       /\ ( /\ ops' # ops
            /\ ret'.op \in {"expire_stale_pending_reservations",
                            "expire_pending_reservations"}
            /\ expire_stale_pending_reservations \/ expire_pending_reservations )
            => /\ entries' = entries
               /\ Len(reservations') = Len(reservations)
               /\ payments' = payments
      ]_vars

\* the processing for a freed slot has run and left alone a WAITING entry
\* that does not overlap the slot of the cancelled reservation
C14_Witness ==
    /\ ret.op = "process_waitlist_after_cancellation"
    /\ ret.out = "no_waitlist"
    /\ \E i \in Ids(entries), k \in Ids(reservations) :
          /\ entries[i].status = WAITING
          /\ reservations[k].status = CANCELLED
          /\ entries[i].table = reservations[k].table
          /\ entries[i].date = reservations[k].date
          /\ ~ Overlap(entries[i].start_time, entries[i].end_time,
                       reservations[k].start_time, reservations[k].end_time)

\* entry i was created before entry j (rows are inserted in key order)
CreatedBefore(es, i, j) ==
    \/ es[i].created_at < es[j].created_at
    \/ es[i].created_at = es[j].created_at /\ i < j

\* the step promotes, for the freed slot, only the earliest-created of the
\* WAITING entries that overlap it
PromotesEarliest(table, date, start_time, end_time) ==
    \A i \in WaitingFor(entries, table, date, start_time, end_time) :
        entries'[i].status # WAITING
          => \A j \in WaitingFor(entries, table, date, start_time, end_time)
                        \ {i} :
                /\ CreatedBefore(entries, i, j)
                /\ entries'[j].status = WAITING

\* C15: whenever a slot is freed, the entry promoted is the earliest-created
\* of the WAITING entries on that table and date whose window overlaps the
\* freed window, whatever the history of joins; every later-created
\* overlapping entry stays WAITING.
C15_PromotionFifo ==
    [][/\ \A table \in Tables, date \in Dates,
             start_time \in Times, end_time \in Times :
            WaitlistService_process_waitlist_for_slot(table, date, start_time,
                                                      end_time)
              => PromotesEarliest(table, date, start_time, end_time)
       /\ \A m \in tasks :
            process_waitlist_after_cancellation(m)
              => PromotesEarliest(m.table, m.date, m.start_time, m.end_time)
      ]_vars

EntryStatusEdges ==
    {<<WAITING, NOTIFIED>>, <<NOTIFIED, CONVERTED>>,
     <<NOTIFIED, EXPIRED>>, <<WAITING, CANCELLED>>}

\* C16: under joins, promotions, conversions, cancel_reservation and the
\* expiry tasks, a waitlist entry's status changes only along WAITING ->
\* NOTIFIED, NOTIFIED -> CONVERTED, NOTIFIED -> EXPIRED and WAITING ->
\* CANCELLED; a CONVERTED, EXPIRED or CANCELLED entry never changes again.
C16_EntryStatusEdgesOnly ==
    [][/\ Len(entries') >= Len(entries)
       /\ \A i \in Ids(entries) :
            entries'[i].status # entries[i].status
              => <<entries[i].status, entries'[i].status>> \in EntryStatusEdges
      ]_vars

\* an entry has been promoted and has then expired while another entry is
\* in the queue or promoted
C16_Witness ==
    \E i, j \in Ids(entries) :
        /\ entries[i].status = EXPIRED
        /\ entries[i].notified_at # None
        /\ entries[j].status \in {WAITING, NOTIFIED}

\* the step changes, for the freed slot, exactly one of the WAITING entries
\* that overlap it: that entry becomes NOTIFIED, with notified_at set and a
\* claim deadline 30 minutes later; when there is none, no entry changes
PromotesOne(table, date, start_time, end_time) ==
    IF WaitingFor(entries, table, date, start_time, end_time) = {}
    THEN entries' = entries
    ELSE \E i \in WaitingFor(entries, table, date, start_time, end_time) :
            /\ entries'[i] = [entries[i] EXCEPT !.status = NOTIFIED,
                                                !.notified_at = now,
                                                !.payment_deadline = now + 1800]
            /\ \A j \in Ids(entries) \ {i} : entries'[j] = entries[j]
            /\ Len(entries') = Len(entries)

\* C17: promotion for a freed (table, date, window) changes at most one
\* waitlist entry: if an overlapping WAITING entry exists, exactly one such
\* entry becomes NOTIFIED with notified_at set and a claim deadline 30
\* minutes after the notification, and it is the entry returned; if none
\* exists, promotion returns nothing, raises nothing and changes no record.
C17_PromotionNotifiesOne ==
    [][/\ ops' # ops /\ ret'.op = "process_waitlist_for_slot"
            => \A table \in Tables, date \in Dates,
                  start_time \in Times, end_time \in Times :
                 WaitlistService_process_waitlist_for_slot(table, date,
                                                           start_time, end_time)
                   => /\ PromotesOne(table, date, start_time, end_time)
                      /\ reservations' = reservations
                      /\ payments' = payments
                      /\ IF WaitingFor(entries, table, date, start_time,
                                       end_time) = {}
                         THEN /\ ret'.out = "None"
                              /\ tasks' = tasks
                         ELSE /\ ret'.out = "entry"
                              /\ ret'.id \in WaitingFor(entries, table, date,
                                                        start_time, end_time)
                              /\ entries'[ret'.id].status = NOTIFIED
       /\ ops' # ops /\ ret'.op = "process_waitlist_after_cancellation"
            => \A m \in tasks :
                 process_waitlist_after_cancellation(m)
                   => /\ PromotesOne(m.table, m.date, m.start_time, m.end_time)
                      /\ reservations' = reservations
                      /\ payments' = payments
      ]_vars

\* a promotion has just returned an entry, now NOTIFIED, while another
\* entry that overlapped the same slot is still WAITING
C17_Witness ==
    /\ ret.op = "process_waitlist_for_slot"
    /\ ret.out = "entry"
    /\ entries[ret.id].status = NOTIFIED
    /\ entries[ret.id].notified_at = now
    /\ \E j \in Ids(entries) :
          /\ j # ret.id
          /\ entries[j].status = WAITING
          /\ entries[j].table = entries[ret.id].table
          /\ entries[j].date = entries[ret.id].date
          /\ Overlap(entries[j].start_time, entries[j].end_time,
                     entries[ret.id].start_time, entries[ret.id].end_time)

\* the claim deadline of the entry has passed
ClaimLapsed(e) ==
    e.payment_deadline # None /\ now > e.payment_deadline

\* C18: converting a NOTIFIED entry before its claim deadline, when its
\* window is free of active reservations on its table and date, creates one
\* new PENDING reservation with its payment record for the entry's user,
\* table, date, window and guest count, links it to the entry and sets the
\* entry to CONVERTED.
C18_ConvertSucceeds ==
    [][ops' # ops /\ ret'.op = "convert_waitlist_to_reservation"
         => \A id \in Ids(entries) :
              /\ convert_waitlist_to_reservation(id)
              /\ entries[id].status = NOTIFIED
              /\ ~ ClaimLapsed(entries[id])
              /\ ~ Occupied(reservations, entries[id].table, entries[id].date,
                            entries[id].start_time, entries[id].end_time)
              => /\ Len(reservations') = Len(reservations) + 1
                 /\ ReservedFor(reservations', Len(reservations'), entries[id])
                 /\ Len(payments') = Len(payments) + 1
                 /\ payments'[Len(payments')].reservation = Len(reservations')
                 /\ entries'[id].status = CONVERTED
                 /\ entries'[id].reservation = Len(reservations')
      ]_vars

\* C19: a convert attempt on a NOTIFIED entry whose claim deadline has
\* passed returns the deadline error, creates no reservation and no payment
\* record, and leaves the entry EXPIRED (and every other entry as it was).
C19_LapsedConvertExpires ==
    [][ops' # ops /\ ret'.op = "convert_waitlist_to_reservation"
         => \A id \in Ids(entries) :
              /\ convert_waitlist_to_reservation(id)
              /\ entries[id].status = NOTIFIED
              /\ ClaimLapsed(entries[id])
              => /\ ret'.out = "Payment deadline has passed."
                 /\ reservations' = reservations
                 /\ payments' = payments
                 /\ entries' = [entries EXCEPT ![id].status = EXPIRED]
      ]_vars

\* a convert attempt has just been refused for a lapsed claim deadline and
\* has left the entry EXPIRED
C19_Witness ==
    /\ ret.op = "convert_waitlist_to_reservation"
    /\ ret.out = "Payment deadline has passed."
    /\ \E i \in Ids(entries) :
          /\ entries[i].status = EXPIRED
          /\ now > entries[i].payment_deadline
          /\ entries[i].notified_at # None

ConvertErrorMessages ==
    {"This request is no longer valid.", "This table is no longer available.",
     ConflictMessage, CapacityMessage}

\* C20: a convert attempt that fails for a reason other than a lapsed claim
\* deadline returns an error message to the caller and changes nothing: the
\* entry keeps its status and no reservation or payment record is created.
C20_FailedConvertReportsAndKeeps ==
    [][ops' # ops /\ ret'.op = "convert_waitlist_to_reservation"
         => \A id \in Ids(entries) :
              /\ convert_waitlist_to_reservation(id)
              /\ ~ (entries[id].status = NOTIFIED /\ ClaimLapsed(entries[id]))
              /\ Len(reservations') = Len(reservations)
              => /\ ret'.out \in ConvertErrorMessages
                 /\ entries' = entries
                 /\ reservations' = reservations
                 /\ payments' = payments
      ]_vars

\* C22: within one (table, date, start_time) queue, of any two entries the
\* one created later has the strictly larger position, also after earlier
\* entries have left the WAITING status; the first entry of a queue gets
\* position 1.
C22_PositionsIncrease ==
    \A i, j \in Ids(entries) :
        /\ entries[i].table = entries[j].table
        /\ entries[i].date = entries[j].date
        /\ entries[i].start_time = entries[j].start_time
        /\ CreatedBefore(entries, i, j)
        => /\ entries[i].position < entries[j].position
           /\ entries[i].position >= 1

\* the expired PENDING reservations of a sweep's batch that the run left
\* uncancelled
LeftPending(batch) ==
    {i \in batch : reservations'[i].status # CANCELLED}

\* C27: within one run of an expiry sweep, a failure on one item does not
\* stop the others: after the run at most the failing item of the batch of
\* expired PENDING reservations is not cancelled.
C27_SweepSkipsFailures ==
    [][/\ ( /\ ops' # ops
            /\ ret'.op = "expire_pending_reservations"
            /\ expire_pending_reservations )
            => Cardinality(LeftPending(pending_reservations(reservations))) <= 1
       /\ ( /\ ops' # ops
            /\ ret'.op = "expire_stale_pending_reservations"
            /\ expire_stale_pending_reservations )
            => Cardinality(LeftPending(stale_reservations(reservations))) <= 1
      ]_vars

\* the per-seat rate that applies to the table: the restaurant's rate for
\* the table's type
SeatRate(table) ==
    IF Table[table].table_type = VIP THEN Restaurant.vip_price_per_seat
    ELSE Restaurant.normal_price_per_seat

\* C30: the price stored on a reservation made by create_reservation is the
\* requested guest_count, not rounded, times the per-seat rate of the
\* table's type (the VIP rate for a VIP table, the normal rate otherwise),
\* and the stored guest_count is the requested one.
C30_PriceByTableType ==
    [][ops' # ops /\ ret'.op = "create_reservation"
         => \A user \in Bookers, table \in Tables, date \in Dates,
               start_time \in Times, end_time \in Times,
               guest_count \in GuestCounts :
              /\ create_reservation(user, table, date, start_time, end_time,
                                    guest_count)
              /\ ret'.out = CreatedMessage
              => /\ reservations'[Len(reservations')].guest_count = guest_count
                 /\ reservations'[Len(reservations')].price
                      = guest_count * SeatRate(table)
      ]_vars

\* C28: for every VIP table and every date at most one reservation is
\* PENDING or CONFIRMED, in every state reached by any interleaving of
\* create_reservation calls, whether or not the requested windows overlap.
C28_OneActivePerVipDate ==
    \A i, j \in Ids(reservations) :
        /\ i # j
        /\ Table[reservations[i].table].table_type = VIP
        /\ reservations[i].table = reservations[j].table
        /\ reservations[i].date = reservations[j].date
        => ~ ( /\ reservations[i].status \in ActiveStatuses
               /\ reservations[j].status \in ActiveStatuses )

\* the user already has a WAITING or NOTIFIED entry for the table, date and
\* start time
ActiveEntryFor(es, user, table, date, start_time) ==
    \E i \in Ids(es) :
        /\ es[i].user = user
        /\ es[i].table = table
        /\ es[i].date = date
        /\ es[i].start_time = start_time
        /\ es[i].status \in {WAITING, NOTIFIED}

GuestsWithinCapacity ==
    /\ \A i \in Ids(reservations) :
           reservations[i].guest_count <= Table[reservations[i].table].capacity
    /\ \A i \in Ids(entries) :
           entries[i].guest_count <= Table[entries[i].table].capacity

\* create_reservation answers a guest count above the capacity with the
\* capacity message and creates nothing, and never answers a guest count
\* within the capacity with that message
CreateChecksCapacity ==
    ( ops' # ops /\ ret'.op = "create_reservation" ) =>
        \A user \in Bookers, table \in Tables, date \in Dates,
           start_time \in Times, end_time \in Times, guest_count \in GuestCounts :
            create_reservation(user, table, date, start_time, end_time, guest_count)
            => IF guest_count > Table[table].capacity
               THEN ret'.out = CapacityMessage /\ reservations' = reservations
                    /\ payments' = payments
               ELSE ret'.out # CapacityMessage

\* C29 as stated: create_reservation and add_to_waitlist with a guest count
\* above the table's capacity return the capacity error and create nothing;
\* every reservation and entry has guest_count <= capacity, and a guest
\* count equal to the capacity is not refused for capacity.
C29_CapacityErrorAlways ==
    /\ [] GuestsWithinCapacity
    /\ [][ /\ CreateChecksCapacity
           /\ ( ops' # ops /\ ret'.op = "add_to_waitlist" ) =>
                 \A user \in Users, table \in Tables, date \in Dates,
                    start_time \in Times, end_time \in Times,
                    guest_count \in GuestCounts :
                     ( /\ start_time < end_time
                       /\ add_to_waitlist(user, table, date, start_time,
                                          end_time, guest_count) )
                     => IF guest_count > Table[table].capacity
                        THEN ret'.out = "capacity" /\ entries' = entries
                        ELSE ret'.out # "capacity" ]_vars

\* C29, amended: a guest count above the capacity never creates a record;
\* create_reservation answers it with the capacity error, add_to_waitlist
\* answers it with the capacity error unless the user already has an active
\* entry for the table, date and start time, which is reported first; every
\* reservation and entry has guest_count <= capacity, and a guest count
\* equal to the capacity is not refused for capacity.
C29_CapacityErrorUnlessDuplicate ==
    /\ [] GuestsWithinCapacity
    /\ [][ /\ CreateChecksCapacity
           /\ ( ops' # ops /\ ret'.op = "add_to_waitlist" ) =>
                 \A user \in Users, table \in Tables, date \in Dates,
                    start_time \in Times, end_time \in Times,
                    guest_count \in GuestCounts :
                     ( /\ start_time < end_time
                       /\ add_to_waitlist(user, table, date, start_time,
                                          end_time, guest_count) )
                     => IF guest_count > Table[table].capacity
                        THEN /\ entries' = entries
                             /\ ret'.out =
                                  IF ActiveEntryFor(entries, user, table, date,
                                                    start_time)
                                  THEN "already" ELSE "capacity"
                        ELSE ret'.out # "capacity" ]_vars

\* a join was refused for capacity while other entries wait and a
\* reservation exists
C29_CapacityRefused ==
    /\ ret.op = "add_to_waitlist"
    /\ ret.out = "capacity"
    /\ Len(entries) > 0
    /\ Len(reservations) > 0

\* the reservation's date is before today, or it is today and its end time
\* is not after the current time
EndPassed(r) ==
    \/ r.date < today
    \/ r.date = today /\ r.end_time <= current_time

ActiveEntriesOf(es, user, table, date, start_time, end_time) ==
    {i \in Ids(es) : /\ es[i].user = user
                     /\ es[i].table = table
                     /\ es[i].date = date
                     /\ es[i].start_time = start_time
                     /\ es[i].end_time = end_time
                     /\ es[i].status \in {WAITING, NOTIFIED}}

\* C21: in every state reached by sequential or concurrent joins, promotions,
\* converts and expiries there is at most one WAITING or NOTIFIED entry for
\* a (user, table, date, start_time, end_time); a join's insert that finds
\* such an active entry is rejected and creates nothing.
C21_OneActiveEntryPerSlot ==
    /\ [] \A i, j \in Ids(entries) :
             j \in ActiveEntriesOf(entries, entries[i].user, entries[i].table,
                                   entries[i].date, entries[i].start_time,
                                   entries[i].end_time)
             /\ entries[i].status \in {WAITING, NOTIFIED}
             => i = j
    /\ [][ \A w \in Workers :
             ( /\ workers[w].pc = "insert"
               /\ JoinInsert(w)
               /\ ActiveEntriesOf(entries, workers[w].user, workers[w].table,
                                  workers[w].date, workers[w].start_time,
                                  workers[w].end_time) # {} )
             => /\ entries' = entries
                /\ workers'[w].out = "IntegrityError" ]_vars

\* a join that passed the duplicate check was refused at its insert because
\* a concurrent join had created the active entry in between
C21_ConcurrentDuplicateRefused ==
    \E w \in Workers :
        /\ workers[w].pc = "returned"
        /\ workers[w].out = "IntegrityError"
        /\ ActiveEntriesOf(entries, workers[w].user, workers[w].table,
                           workers[w].date, workers[w].start_time,
                           workers[w].end_time) # {}

\* the rows after one run of the completion sweep over the rows rs
SweptRows(rs) ==
    CompleteLoop([rs |-> rs, out |-> ""], ended_candidates(rs)).rs

\* C25: each expiry or completion task is idempotent.  With no other
\* operation and no clock advance in between, a second run of
\* check_and_complete_reservations changes no reservation; a second run of
\* expire_waitlist_entry for the same entry changes no entry and sends no
\* further message (no further promotion); and a run of
\* expire_pending_reservations, the second included, changes no record and
\* sends no message.
C25_TasksIdempotent ==
    /\ [] ( /\ SweptRows(SweptRows(reservations)) = SweptRows(reservations)
            /\ \A id \in Ids(entries) :
                 LET once == expire_waitlist_entry_body(entries, reservations,
                                                        tasks, id)
                     twice == expire_waitlist_entry_body(once.es, reservations,
                                                         once.ts, id)
                 IN  twice.es = once.es /\ twice.ts = once.ts )
    /\ [][ ( /\ ops' # ops
             /\ ret'.op = "expire_pending_reservations"
             /\ expire_pending_reservations )
           => UNCHANGED <<reservations, payments, entries, tasks>> ]_vars

\* expire_waitlist_entry has expired an entry whose claim had lapsed and
\* has notified the next one, so that a second run for the expired entry
\* finds candidates to act on
C25_TaskHasRun ==
    /\ ret.op = "expire_waitlist_entry"
    /\ ret.out = "expired_and_next_notified"
    /\ \E i, j \in Ids(entries) :
          /\ entries[i].status = EXPIRED
          /\ entries[j].status = NOTIFIED
          /\ entries[i].table = entries[j].table

\* C23: with the periodic expiry task running for ever, every PENDING
\* reservation whose payment_deadline has passed is eventually CANCELLED,
\* unless a verified payment confirms it first.
C23_LapsedPendingCancelled ==
    \A i \in 1 .. MaxOps :
        ( /\ i \in Ids(reservations)
          /\ reservations[i].status = PENDING
          /\ reservations[i].payment_deadline # None
          /\ reservations[i].payment_deadline < now )
        ~> ( /\ i \in Ids(reservations)
             /\ reservations[i].status \in {CANCELLED, CONFIRMED} )

\* the entries i and j are on the same table and date, with windows that
\* overlap
SameSlot(es, i, j) ==
    /\ es[i].table = es[j].table
    /\ es[i].date = es[j].date
    /\ Overlap(es[i].start_time, es[i].end_time,
               es[j].start_time, es[j].end_time)

\* C24: every NOTIFIED entry whose claim deadline has passed is eventually
\* EXPIRED, and promotion then runs again for its window: an entry that
\* waits for an overlapping window does not wait for ever while no entry of
\* that window is NOTIFIED.
C24_LapsedClaimExpiresAndPromotes ==
    \A i \in 1 .. MaxEntries :
        ( /\ i \in Ids(entries)
          /\ entries[i].status = NOTIFIED
          /\ ClaimLapsed(entries[i])
          /\ \E j \in Ids(entries) :
                entries[j].status = WAITING /\ SameSlot(entries, i, j) )
        ~> ( /\ i \in Ids(entries)
             /\ entries[i].status = EXPIRED
             /\ \/ \A j \in Ids(entries) :
                      ~ (entries[j].status = WAITING /\ SameSlot(entries, i, j))
                \/ \E k \in Ids(entries) :
                      /\ entries[k].status = NOTIFIED
                      /\ SameSlot(entries, i, k) )

\* C31: marking a payment as failed is accepted only while the payment is
\* PENDING; it sets that payment's status to FAILED and nothing else, and
\* leaves every reservation, every other payment and every entry as it
\* was; a VERIFIED payment never becomes FAILED.
C31_FailOnlyPending ==
    [][ /\ ( ops' # ops /\ ret'.op = "PaymentRecord.fail" ) =>
             \A id \in Ids(payments) :
                 PaymentRecord_fail(id)
                 => /\ reservations' = reservations
                    /\ entries' = entries
                    /\ IF payments[id].status = PENDING
                       THEN payments' = [payments EXCEPT ![id].status = FAILED]
                       ELSE payments' = payments
        /\ \A id \in Ids(payments) :
               payments[id].status = VERIFIED => payments'[id].status # FAILED
      ]_vars

\* C32: for every positive integer n, round_up_to_even(n) is the smallest
\* even integer that is at least n (1 -> 2, 3 -> 4, 4 -> 4, 5 -> 6), and
\* applying the function to its result gives the result again.
C32_SmallestEvenAtLeast ==
    ret.op = "round_up_to_even" =>
        /\ ret.out % 2 = 0
        /\ ret.out >= ret.number
        /\ \A m \in ret.number .. ret.out : m % 2 = 0 => m = ret.out
        /\ round_up_to_even(ret.out) = ret.out
        /\ (ret.number = 1 => ret.out = 2)
        /\ (ret.number = 3 => ret.out = 4)
        /\ (ret.number = 4 => ret.out = 4)
        /\ (ret.number = 5 => ret.out = 6)

\* the function has been applied to the odd number 59
C32_OddRoundedUp ==
    /\ ret.op = "round_up_to_even"
    /\ ret.number = 59
    /\ ret.out = 60

\* C33: promotions running concurrently never select and notify the same
\* entry: a promotion notifies an entry that is WAITING at the moment it is
\* notified, and two promotions that both return an entry return distinct
\* entries.
C33_PromotionAtomic ==
    /\ [] \A w1, w2 \in Workers :
             ( /\ w1 # w2
               /\ workers[w1].pc = "returned" /\ workers[w1].out = "entry"
               /\ workers[w2].pc = "returned" /\ workers[w2].out = "entry" )
             => workers[w1].id # workers[w2].id
    /\ [][ \A w \in Workers :
             ( workers[w].pc = "notify" /\ PromoteNotify(w) )
             => entries[workers[w].id].status = WAITING ]_vars

\* the reservation was cancelled by an expiry task
Swept(r) ==
    r.cancellation_reason = StaleReason

\* C34: of the expiry of a PENDING reservation and the verification of its
\* payment exactly one wins: a reservation the expiry task has cancelled
\* stays CANCELLED, and no reservation is CONFIRMED after the expiry task
\* has cancelled it and freed its window for the waitlist.
C34_ExpiryOrVerifyWins ==
    /\ [] \A i \in Ids(reservations) :
             reservations[i].status = CONFIRMED => ~ Swept(reservations[i])
    /\ [][ \A i \in Ids(reservations) :
             ( reservations[i].status = CANCELLED /\ Swept(reservations[i]) )
             => reservations'[i].status = CANCELLED ]_vars

\* C35: verifying a PENDING payment whose reservation is still PENDING
\* after its payment_deadline has passed does not leave the reservation
\* CONFIRMED.
C35_LateVerifyDoesNotConfirm ==
    [][ ( ops' # ops /\ ret'.op = "PaymentRecord.verify" ) =>
          \A id \in Ids(payments), ref_id \in RefIds :
              ( /\ PaymentRecord_verify(id, ref_id)
                /\ payments[id].status = PENDING
                /\ reservations[payments[id].reservation].status = PENDING
                /\ is_payment_expired(reservations[payments[id].reservation]) )
              => reservations'[payments[id].reservation].status # CONFIRMED
      ]_vars

\* C36: no background task cancels a PENDING reservation before the
\* reservation's own payment_deadline has passed.
C36_NoExpiryBeforeDeadline ==
    [][ ( /\ ops' # ops
          /\ ret'.op \in {"expire_stale_pending_reservations",
                          "expire_pending_reservations",
                          "check_and_complete_reservations"} )
        => \A i \in Ids(reservations) :
              ( /\ reservations[i].status = PENDING
                /\ reservations'[i].status # PENDING )
              => is_payment_expired(reservations[i])
      ]_vars

\* a PENDING reservation whose payment_deadline has passed, not yet visited
\* by a sweep or a confirm, lies on part of the window
LapsedPendingOn(rs, table, date, start_time, end_time) ==
    \E i \in Ids(rs) :
        /\ rs[i].table = table
        /\ rs[i].date = date
        /\ rs[i].status = PENDING
        /\ is_payment_expired(rs[i])
        /\ Overlap(rs[i].start_time, rs[i].end_time, start_time, end_time)

\* C37 as stated: while a PENDING reservation whose payment_deadline has
\* passed is still PENDING, every create_reservation for an overlapping
\* window on its table and date is rejected with the conflict message.
C37_LapsedPendingConflicts ==
    [][ ( ops' # ops /\ ret'.op = "create_reservation" ) =>
          \A user \in Bookers, table \in Tables, date \in Dates,
             start_time \in Times, end_time \in Times, guest_count \in GuestCounts :
              ( /\ create_reservation(user, table, date, start_time, end_time,
                                      guest_count)
                /\ LapsedPendingOn(reservations, table, date, start_time, end_time) )
              => /\ ret'.out = ConflictMessage
                 /\ reservations' = reservations
                 /\ payments' = payments ]_vars

\* C37, amended: while a PENDING reservation whose payment_deadline has
\* passed is still PENDING, every create_reservation for an overlapping
\* window on its table and date is rejected and creates nothing: with the
\* conflict message when the guest count is within the table's capacity,
\* with the capacity message otherwise.
C37_LapsedPendingBlocks ==
    [][ ( ops' # ops /\ ret'.op = "create_reservation" ) =>
          \A user \in Bookers, table \in Tables, date \in Dates,
             start_time \in Times, end_time \in Times, guest_count \in GuestCounts :
              ( /\ create_reservation(user, table, date, start_time, end_time,
                                      guest_count)
                /\ LapsedPendingOn(reservations, table, date, start_time, end_time) )
              => /\ ret'.out = IF guest_count > Table[table].capacity
                               THEN CapacityMessage ELSE ConflictMessage
                 /\ reservations' = reservations
                 /\ payments' = payments ]_vars

\* a create_reservation has been refused for a conflict at a time when the
\* only reservation, made at the start of the day, is PENDING past its
\* deadline
C37_RefusedByLapsedPending ==
    /\ ret.op = "create_reservation"
    /\ ret.out = ConflictMessage
    /\ Len(reservations) = 1
    /\ reservations[1].status = PENDING
    /\ is_payment_expired(reservations[1])
    /\ ops = 2

\* C38: a promoted party keeps its slot for the whole claim window: while
\* an entry is NOTIFIED and its claim deadline has not passed, no
\* reservation made after the notification is active on an overlapping
\* window of the entry's table and date, unless it is the entry's own.
C38_PromotedKeepsSlot ==
    \A j \in Ids(entries), i \in Ids(reservations) :
        ( /\ entries[j].status = NOTIFIED
          /\ ~ ClaimLapsed(entries[j])
          /\ reservations[i].table = entries[j].table
          /\ reservations[i].date = entries[j].date
          /\ Overlap(reservations[i].start_time, reservations[i].end_time,
                     entries[j].start_time, entries[j].end_time)
          /\ reservations[i].status \in ActiveStatuses
          /\ reservations[i].created_at > entries[j].notified_at )
        => entries[j].reservation = i

\* C39: uniqueness of waitlist entries applies to active entries only: a
\* join within the table's capacity by a user who has no WAITING or
\* NOTIFIED entry for the same table, date, start_time and end_time is
\* accepted and yields a new WAITING entry, whether the user has a terminal
\* entry for that window or an active entry with another end_time.
C39_UniqueAmongActiveOnly ==
    [][ ( ops' # ops /\ ret'.op = "add_to_waitlist" ) =>
          \A user \in Users, table \in Tables, date \in Dates,
             start_time \in Times, end_time \in Times,
             guest_count \in WaitGuestCounts :
              ( /\ start_time < end_time
                /\ add_to_waitlist(user, table, date, start_time, end_time,
                                   guest_count)
                /\ guest_count <= Table[table].capacity
                /\ ActiveEntriesOf(entries, user, table, date, start_time,
                                   end_time) = {} )
              => /\ ret'.out = "added"
                 /\ Len(entries') = Len(entries) + 1
                 /\ entries'[Len(entries')].status = WAITING ]_vars

\* C40: create_reservation is total: every call either returns a new
\* reservation or returns an error message as a value, never an exception,
\* and a rejected call creates no reservation and no payment record.
C40_CreateIsTotal ==
    [][ ( ops' # ops /\ ret'.op = "create_reservation" ) =>
          \A user \in Bookers, table \in Tables, date \in Dates,
             start_time \in Times, end_time \in Times, guest_count \in GuestCounts :
              create_reservation(user, table, date, start_time, end_time,
                                 guest_count)
              => /\ ret'.out \in {CreatedMessage, CapacityMessage, ConflictMessage}
                 /\ ret'.out # CreatedMessage
                      => reservations' = reservations /\ payments' = payments
      ]_vars

====
